---- MODULE Spec2Model ----
(***************************************************************************)
(* Model of the two e-mail senders of trending-skills:                     *)
(*   src/src/resend_sender.py  (ResendSender, Resend HTTP API)             *)
(*   src/src/smtp_sender.py    (SMTPSender, smtplib)                       *)
(*                                                                         *)
(* A Python str is a sequence of one-character strings; a Python list of   *)
(* str is a sequence of such sequences.  The argument `to` is a tagged     *)
(* value, because isinstance(to, str) tells a str from a list.             *)
(***************************************************************************)
EXTENDS Integers, Sequences, FiniteSets, TLC

(***************************************************************************)
(* Bounds of the model.                                                    *)
(***************************************************************************)
\* longest recipient specification explored by the parser specification
MaxLen == 4

\* the characters recipient specifications are built from
Alphabet == {"a", "@", ".", " ", ",", ";", "<", ">", "\""}

(***************************************************************************)
(* str helpers: str.strip, str.split, `in`, ''.join                        *)
(***************************************************************************)
Contains(s, ch) == \E i \in 1..Len(s) : s[i] = ch

RECURSIVE LStrip(_)
LStrip(s) == IF s # <<>> /\ Head(s) = " " THEN LStrip(Tail(s)) ELSE s

RECURSIVE RStrip(_)
RStrip(s) ==
    IF s # <<>> /\ s[Len(s)] = " " THEN RStrip(SubSeq(s, 1, Len(s) - 1)) ELSE s

strip(s) == RStrip(LStrip(s))

\* str.split(sep): the pieces between the separators, empty ones included
RECURSIVE SplitFrom(_, _, _, _)
SplitFrom(s, sep, i, cur) ==
    IF i > Len(s) THEN <<cur>>
    ELSE IF s[i] = sep THEN <<cur>> \o SplitFrom(s, sep, i + 1, <<>>)
    ELSE SplitFrom(s, sep, i + 1, Append(cur, s[i]))

split(s, sep) == SplitFrom(s, sep, 1, <<>>)

RECURSIVE join(_)
join(l) == IF l = <<>> THEN <<>> ELSE Head(l) \o join(Tail(l))

\* [email.strip() for email in l if email.strip()]
RECURSIVE StripNonEmpty(_)
StripNonEmpty(l) ==
    IF l = <<>> THEN <<>>
    ELSE IF strip(Head(l)) # <<>>
         THEN <<strip(Head(l))>> \o StripNonEmpty(Tail(l))
         ELSE StripNonEmpty(Tail(l))

(***************************************************************************)
(* email.utils.parseaddr, as SMTPSender calls it: the address part of the  *)
(* first address that email._parseaddr.AddrlistClass finds in the field.   *)
(* Positions are 1-based; Python's pos < len(field) is pos <= Len(field).  *)
(* The parser is modelled on Alphabet, which has no '(' ':' '[' '\' and no *)
(* line breaks: there are no comments, groups or domain literals.          *)
(***************************************************************************)
specials == {"(", ")", "<", ">", "@", ",", ":", ";", ".", "\"", "[", "]"}
LWS == {" ", "\t"}
atomends == specials \cup LWS \cup {"\r", "\n"}
phraseends == atomends \ {"."}

\* AddrlistClass.gotonext: skip white space, return it
RECURSIVE gotonext(_, _)
gotonext(field, pos) ==
    IF pos <= Len(field) /\ field[pos] \in LWS
    THEN LET r == gotonext(field, pos + 1)
         IN  [s |-> <<field[pos]>> \o r.s, pos |-> r.pos]
    ELSE [s |-> <<>>, pos |-> pos]

\* AddrlistClass.getatom
RECURSIVE getatom(_, _, _)
getatom(field, pos, ends) ==
    IF pos <= Len(field) /\ field[pos] \notin ends
    THEN LET r == getatom(field, pos + 1, ends)
         IN  [s |-> <<field[pos]>> \o r.s, pos |-> r.pos]
    ELSE [s |-> <<>>, pos |-> pos]

\* AddrlistClass.getdelimited('"', '"\r', False), after the opening quote
RECURSIVE getquote_loop(_, _)
getquote_loop(field, pos) ==
    IF pos > Len(field) THEN [s |-> <<>>, pos |-> pos]
    ELSE IF field[pos] = "\"" THEN [s |-> <<>>, pos |-> pos + 1]
    ELSE LET r == getquote_loop(field, pos + 1)
         IN  [s |-> <<field[pos]>> \o r.s, pos |-> r.pos]

\* AddrlistClass.getquote
getquote(field, pos) ==
    IF field[pos] # "\"" THEN [s |-> <<>>, pos |-> pos]
    ELSE getquote_loop(field, pos + 1)

\* AddrlistClass.getdomain
RECURSIVE getdomain_loop(_, _, _)
getdomain_loop(field, pos, sdlist) ==
    IF pos > Len(field) THEN [s |-> sdlist, pos |-> pos]
    ELSE IF field[pos] \in LWS THEN getdomain_loop(field, pos + 1, sdlist)
    ELSE IF field[pos] = "." THEN getdomain_loop(field, pos + 1, Append(sdlist, "."))
    ELSE IF field[pos] = "@" THEN [s |-> <<>>, pos |-> pos]
    ELSE IF field[pos] \in atomends THEN [s |-> sdlist, pos |-> pos]
    ELSE LET a == getatom(field, pos, atomends)
         IN  getdomain_loop(field, a.pos, sdlist \o a.s)

getdomain(field, pos) == getdomain_loop(field, pos, <<>>)

\* aslist without a trailing all-blank element:
\*   if aslist and not aslist[-1].strip(): aslist.pop()
PopBlank(aslist) ==
    IF aslist # <<>> /\ strip(aslist[Len(aslist)]) = <<>>
    THEN SubSeq(aslist, 1, Len(aslist) - 1)
    ELSE aslist

\* aslist plus the white space gotonext returned, when there is some
WithWs(aslist, ws) == IF ws # <<>> THEN Append(aslist, ws) ELSE aslist

\* the while loop of AddrlistClass.getaddrspec
RECURSIVE getaddrspec_loop(_, _, _)
getaddrspec_loop(field, pos, aslist) ==
    IF pos > Len(field) THEN [l |-> aslist, pos |-> pos]
    ELSE IF field[pos] = "."
    THEN LET g == gotonext(field, pos + 1)
         IN  getaddrspec_loop(field, g.pos, Append(PopBlank(aslist), <<".">>))
    ELSE IF field[pos] = "\""
    THEN LET q == getquote(field, pos)
             g == gotonext(field, q.pos)
         IN  getaddrspec_loop(field, g.pos,
                 WithWs(Append(aslist, <<"\"">> \o q.s \o <<"\"">>), g.s))
    ELSE IF field[pos] \in atomends
    THEN [l |-> PopBlank(aslist), pos |-> pos]
    ELSE LET a == getatom(field, pos, atomends)
             g == gotonext(field, a.pos)
         IN  getaddrspec_loop(field, g.pos, WithWs(Append(aslist, a.s), g.s))

\* AddrlistClass.getaddrspec
getaddrspec(field, pos) ==
    LET g0 == gotonext(field, pos)
        r  == getaddrspec_loop(field, g0.pos, <<>>)
    IN  IF r.pos > Len(field) \/ field[r.pos] # "@"
        THEN [s |-> join(r.l), pos |-> r.pos]
        ELSE LET g1 == gotonext(field, r.pos + 1)
                 d  == getdomain(field, g1.pos)
             IN  IF d.s = <<>>
                 THEN [s |-> <<>>, pos |-> d.pos]
                 ELSE [s |-> join(r.l) \o <<"@">> \o d.s, pos |-> d.pos]

\* AddrlistClass.getphraselist
RECURSIVE getphraselist_loop(_, _, _)
getphraselist_loop(field, pos, plist) ==
    IF pos > Len(field) THEN [l |-> plist, pos |-> pos]
    ELSE IF field[pos] \in LWS \cup {"\r", "\n"}
    THEN getphraselist_loop(field, pos + 1, plist)
    ELSE IF field[pos] = "\""
    THEN LET q == getquote(field, pos)
         IN  getphraselist_loop(field, q.pos, Append(plist, q.s))
    ELSE IF field[pos] \in phraseends THEN [l |-> plist, pos |-> pos]
    ELSE LET a == getatom(field, pos, phraseends)
         IN  getphraselist_loop(field, a.pos, Append(plist, a.s))

getphraselist(field, pos) == getphraselist_loop(field, pos, <<>>)

\* the while loop of AddrlistClass.getrouteaddr, pos after '<' and gotonext
RECURSIVE getrouteaddr_loop(_, _, _)
getrouteaddr_loop(field, pos, expectroute) ==
    IF pos > Len(field) THEN <<>>
    ELSE IF expectroute
    THEN getrouteaddr_loop(field,
             gotonext(field, getdomain(field, pos).pos).pos, FALSE)
    ELSE IF field[pos] = ">" THEN <<>>
    ELSE IF field[pos] = "@"
    THEN getrouteaddr_loop(field, gotonext(field, pos + 1).pos, TRUE)
    ELSE IF field[pos] = ":"
    THEN getrouteaddr_loop(field, gotonext(field, pos + 1).pos, FALSE)
    ELSE getaddrspec(field, pos).s

\* AddrlistClass.getrouteaddr, called at a '<'
getrouteaddr(field, pos) ==
    getrouteaddr_loop(field, gotonext(field, pos + 1).pos, FALSE)

\* AddrlistClass.getaddress for the first address of the field: the address
\* part of returnlist[0], or the empty str when returnlist is empty
getaddress(field) ==
    LET oldpos == gotonext(field, 1).pos
        p      == getphraselist(field, oldpos)
        pos    == gotonext(field, p.pos).pos
    IN  IF pos > Len(field)
        THEN IF p.l # <<>> THEN p.l[1] ELSE <<>>
        ELSE IF field[pos] \in {".", "@"} THEN getaddrspec(field, oldpos).s
        ELSE IF field[pos] = "<" THEN getrouteaddr(field, pos)
        ELSE IF p.l # <<>> THEN p.l[1] ELSE <<>>

\* email.utils.parseaddr(addr)[1]
parseaddr(addr) == IF addr = <<>> THEN <<>> ELSE getaddress(addr)

(***************************************************************************)
(* _parse_recipients of both senders.  `to` is [t |-> "str", v |-> s],     *)
(* [t |-> "list", v |-> l] or [t |-> "None", v |-> <<>>]; the result is     *)
(* [raised, recipients]: raised when the call ends with an exception.      *)
(***************************************************************************)
Senders == {"resend", "smtp"}

Str(s) == [t |-> "str", v |-> s]
List(l) == [t |-> "list", v |-> l]
NoneTo == [t |-> "None", v |-> <<>>]

\* faulty variant of split_recipients: a str is cut at ';' before ','
split_recipients_semicolon_first(to) ==
    IF to.t = "str"
    THEN IF Contains(to.v, ";") THEN StripNonEmpty(split(to.v, ";"))
         ELSE IF Contains(to.v, ",") THEN StripNonEmpty(split(to.v, ","))
         ELSE <<strip(to.v)>>
    ELSE StripNonEmpty(to.v)

\* the first half of _parse_recipients: the list named `recipients`
split_recipients(to) ==
    IF to.t = "str"
    THEN IF Contains(to.v, ",") THEN StripNonEmpty(split(to.v, ","))
         ELSE IF Contains(to.v, ";") THEN StripNonEmpty(split(to.v, ";"))
         ELSE <<strip(to.v)>>
    ELSE StripNonEmpty(to.v)

\* email and '@' in email and '.' in email
valid_email(email) == email # <<>> /\ Contains(email, "@") /\ Contains(email, ".")

\* the filter loop of ResendSender._parse_recipients
RECURSIVE resend_filter(_)
resend_filter(l) ==
    IF l = <<>> THEN <<>>
    ELSE IF valid_email(Head(l)) THEN <<Head(l)>> \o resend_filter(Tail(l))
    ELSE resend_filter(Tail(l))

\* the filter loop of SMTPSender._parse_recipients: parseaddr, test and keep addr
RECURSIVE smtp_filter(_)
smtp_filter(l) ==
    IF l = <<>> THEN <<>>
    ELSE IF valid_email(parseaddr(Head(l)))
         THEN <<parseaddr(Head(l))>> \o smtp_filter(Tail(l))
         ELSE smtp_filter(Tail(l))

NoParse == [raised |-> FALSE, recipients |-> <<>>]

\* _parse_recipients; iterating over None raises TypeError
parse_recipients(kind, to) ==
    IF to.t = "None" THEN [raised |-> TRUE, recipients |-> <<>>]
    ELSE [raised |-> FALSE,
          recipients |-> IF kind = "resend"
                         THEN resend_filter(split_recipients(to))
                         ELSE smtp_filter(split_recipients(to))]

\* faulty variant of format_from_header_ok: from_email itself is tested,
\* not its address part
format_from_header_raw(from_email) == valid_email(from_email)

\* SMTPSender._format_from_header(from_email) is not None
format_from_header_ok(from_email) == valid_email(parseaddr(from_email))

(***************************************************************************)
(* State.  Every caller owns one sender object and runs one call at a      *)
(* time; resend_api_key is the attribute api_key of the imported module    *)
(* resend, which all ResendSender objects of the process share.            *)
(***************************************************************************)
VARIABLES
    sender,          \* caller -> the sender object it holds: [kind, cred]
    resend_api_key,  \* resend.api_key
    pc,              \* caller -> where its running call stands
    args,            \* caller -> arguments of its current or last call
    recipients,      \* caller -> local `recipients`
    idx,             \* caller -> position of the batch loop in recipients
    results,         \* caller -> local `results`
    success_count,   \* caller -> local `success_count`
    open_connections, \* caller -> SMTP connections its call holds open
    ret,             \* caller -> what the last call handed back
    log,             \* caller -> library calls made by the current call
    p_sender,        \* parser specification: which sender parses
    p_to,            \* parser specification: the input
    p_pc,            \* parser specification: "input", "parsed", "reparsed"
    p_out,           \* parser specification: _parse_recipients(p_to)
    p_out2           \* parser specification: _parse_recipients(p_out)

vars == <<sender, resend_api_key, pc, args, recipients, idx, results,
          success_count, open_connections, ret, log,
          p_sender, p_to, p_pc, p_out, p_out2>>

sendVars == <<sender, resend_api_key, pc, args, recipients, idx, results,
              success_count, open_connections, ret, log>>

parseVars == <<p_sender, p_to, p_pc, p_out, p_out2>>

Callers == {"c1", "c2"}
Credentials == {"k1", "k2"}
Methods == {"send_email", "send_batch_separate"}

\* valid, distinct addresses (valid for both senders), and other pieces
Addr1 == <<"a", "@", ".">>
Addr2 == <<"@", ".">>
Addr3 == <<".", "@", "a">>
NotAnEmail == <<"a">>
Named == <<"a", "<", "a", "@", ".", ">">>
NoAddrPart == <<"a", ".", "<", "@", ">">>

\* most recipients of one call
MaxRcpt == 3

\* Addr1, Addr2, Addr3, Addr1, ... : the first n of them
RECURSIVE AddrList(_)
AddrList(n) ==
    IF n = 0 THEN <<>>
    ELSE Append(AddrList(n - 1),
                CASE n % 3 = 1 -> Addr1 [] n % 3 = 2 -> Addr2 [] OTHER -> Addr3)

\* the values of `to` the callers pass
ToInputs ==
    {List(AddrList(n)) : n \in 0..MaxRcpt}
    \cup {Str(Addr1 \o <<",", " ">> \o Addr2),
          Str(Addr3 \o <<";">> \o Addr1),
          Str(NotAnEmail),
          List(<<Addr2, NotAnEmail, Named>>),
          NoneTo}

\* the values of from_email the callers pass
FromInputs == {Addr1, Named, NotAnEmail, NoAddrPart}

\* the inputs of the specification with two concurrent callers
ConcToInputs == {List(<<Addr1>>)}
ConcFromInputs == {Addr1}

NoSender == [kind |-> "none", cred |-> "none"]
NoArgs == [method |-> "none", to |-> NoneTo, from_email |-> <<>>,
           build_ok |-> TRUE]

\* what a call hands back: a dict (send_email), a list (send_batch_separate)
\* or an exception; parts names what the caller receives
NoRet == [t |-> "none", success |-> FALSE, recipients |-> <<>>,
          results |-> <<>>, message |-> "none", parts |-> {}]
RaiseRet == [NoRet EXCEPT !.t = "raise"]
DictRet(ok, rcpts, msg) ==
    [t |-> "dict", success |-> ok, recipients |-> rcpts, results |-> <<>>,
     message |-> msg, parts |-> {"success", "message", "recipients"}]
ListRet(res) ==
    [t |-> "list", success |-> FALSE, recipients |-> <<>>, results |-> res,
     message |-> "none", parts |-> {"results"}]

\* one library call of the current call: i is the batch position (0 in
\* send_email), to the recipients handed over, cred the credentials the
\* library used, self_cred the ones the sender object was constructed with
Entry(c, op, ok, to, cred) ==
    [op |-> op, i |-> idx[c], ok |-> ok, to |-> to, cred |-> cred,
     self_cred |-> sender[c].cred]

Init ==
    /\ sender = [c \in Callers |-> NoSender]
    /\ resend_api_key = "unset"
    /\ pc = [c \in Callers |-> "idle"]
    /\ args = [c \in Callers |-> NoArgs]
    /\ recipients = [c \in Callers |-> <<>>]
    /\ idx = [c \in Callers |-> 0]
    /\ results = [c \in Callers |-> <<>>]
    /\ success_count = [c \in Callers |-> 0]
    /\ open_connections = [c \in Callers |-> 0]
    /\ ret = [c \in Callers |-> NoRet]
    /\ log = [c \in Callers |-> <<>>]
    /\ p_sender = "resend"
    /\ p_to = NoneTo
    /\ p_pc = "off"
    /\ p_out = NoParse
    /\ p_out2 = NoParse

(***************************************************************************)
(* The senders.                                                            *)
(***************************************************************************)
\* ResendSender.__init__ / SMTPSender.__init__: the caller gets a new sender
\* object; ResendSender also assigns the module attribute resend.api_key
Construct(c, kind, cred) ==
    /\ pc[c] = "idle"
    /\ ret[c].t = "none"
    /\ sender' = [sender EXCEPT ![c] = [kind |-> kind, cred |-> cred]]
    /\ resend_api_key' = IF kind = "resend" THEN cred ELSE resend_api_key
    /\ UNCHANGED <<pc, args, recipients, idx, results, success_count,
                   open_connections, ret, log>>
    /\ UNCHANGED parseVars

\* the first library call of a send: resend.Emails.send or smtplib.SMTP(...)
FirstStep(kind) == IF kind = "resend" THEN "send" ELSE "connect"

\* results of a batch whose every recipient fails before any library call
RECURSIVE AllFailed(_)
AllFailed(rcpts) ==
    IF rcpts = <<>> THEN <<>>
    ELSE <<[success |-> FALSE, email |-> Head(rcpts)]>> \o AllFailed(Tail(rcpts))

\* faulty variant of no_recipients: send_email goes on with an empty list
no_recipients_batch_only(m, rcpts) == m # "send_email" /\ rcpts = <<>>

\* `if not recipients:` in method m
no_recipients(m, rcpts) == rcpts = <<>>

\* send_email(to, subject, html_content, from_email) and
\* send_batch_separate(...) up to their first library call.  build_ok says
\* whether MIMEText(html_content, 'html', 'utf-8') succeeds.
Call(c, m, to, from_email, build_ok) ==
    LET kind == sender[c].kind
        p    == parse_recipients(kind, to)
        local_ok == kind = "resend"
                    \/ (format_from_header_ok(from_email) /\ build_ok)
    IN
    /\ pc[c] = "idle"
    /\ ret[c].t = "none"
    /\ kind # "none"
    /\ args' = [args EXCEPT ![c] = [method |-> m, to |-> to,
                                    from_email |-> from_email,
                                    build_ok |-> build_ok]]
    /\ log' = [log EXCEPT ![c] = <<>>]
    /\ results' = [results EXCEPT ![c] =
           IF ~p.raised /\ m = "send_batch_separate" /\ ~local_ok
           THEN AllFailed(p.recipients) ELSE <<>>]
    /\ success_count' = [success_count EXCEPT ![c] = 0]
    /\ recipients' = [recipients EXCEPT ![c] = p.recipients]
    /\ IF p.raised
       THEN \* _parse_recipients is called outside the try block
            /\ ret' = [ret EXCEPT ![c] = RaiseRet]
            /\ pc' = [pc EXCEPT ![c] = "idle"]
            /\ idx' = [idx EXCEPT ![c] = 0]
       ELSE IF no_recipients(m, p.recipients)
       THEN /\ ret' = [ret EXCEPT ![c] =
                   IF m = "send_email"
                   THEN DictRet(FALSE, <<>>, "no_recipients")
                   ELSE ListRet(<<>>)]
            /\ pc' = [pc EXCEPT ![c] = "idle"]
            /\ idx' = [idx EXCEPT ![c] = 0]
       ELSE IF ~local_ok
       THEN /\ ret' = [ret EXCEPT ![c] =
                   IF m = "send_email"
                   THEN DictRet(FALSE, p.recipients,
                                IF format_from_header_ok(from_email)
                                THEN "error" ELSE "invalid_from")
                   ELSE ListRet(AllFailed(p.recipients))]
            /\ pc' = [pc EXCEPT ![c] = "idle"]
            /\ idx' = [idx EXCEPT ![c] =
                   IF m = "send_email" THEN 0 ELSE Len(p.recipients)]
       ELSE /\ ret' = [ret EXCEPT ![c] = NoRet]
            /\ pc' = [pc EXCEPT ![c] = FirstStep(kind)]
            /\ idx' = [idx EXCEPT ![c] = IF m = "send_email" THEN 0 ELSE 1]
    /\ UNCHANGED <<sender, resend_api_key, open_connections>>
    /\ UNCHANGED parseVars

\* The caller has used what its last call handed back and drops it; the
\* locals of that call are gone.
Discard(c) ==
    /\ pc[c] = "idle"
    /\ ret[c].t # "none"
    /\ args' = [args EXCEPT ![c] = NoArgs]
    /\ recipients' = [recipients EXCEPT ![c] = <<>>]
    /\ idx' = [idx EXCEPT ![c] = 0]
    /\ results' = [results EXCEPT ![c] = <<>>]
    /\ success_count' = [success_count EXCEPT ![c] = 0]
    /\ ret' = [ret EXCEPT ![c] = NoRet]
    /\ log' = [log EXCEPT ![c] = <<>>]
    /\ UNCHANGED <<sender, resend_api_key, pc, open_connections>>
    /\ UNCHANGED parseVars

\* faulty variant of CurrentTo: the batch loop hands over the whole list
CurrentTo_whole_list(c) == recipients[c]

\* the recipients the current library call is for: all of them in
\* send_email, [email] in the loop of send_batch_separate
CurrentTo(c) ==
    IF args[c].method = "send_email" THEN recipients[c]
    ELSE <<recipients[c][idx[c]]>>

\* faulty variant of count_success: failures are counted too
count_success_always(n, ok) == n + 1

\* success_count after a result with success = ok
count_success(n, ok) == IF ok THEN n + 1 ELSE n

\* faulty variant of loop_continues: the first failure ends the loop
loop_stops_on_failure(c, ok) == ok /\ idx[c] < Len(recipients[c])

\* the loop of send_batch_separate goes on after a result with success = ok
loop_continues(c, ok) == idx[c] < Len(recipients[c])

\* The end of one attempt with success = ok, after the library calls
\* `entries`: send_email returns its dict; send_batch_separate appends the
\* result and goes on to the next recipient, or returns the list.
Conclude(c, ok, entries) ==
    LET res == Append(results[c],
                      [success |-> ok, email |-> recipients[c][idx[c]]])
    IN
    /\ log' = [log EXCEPT ![c] = log[c] \o entries]
    /\ IF args[c].method = "send_email"
       THEN /\ ret' = [ret EXCEPT ![c] =
                   DictRet(ok, recipients[c], IF ok THEN "sent" ELSE "error")]
            /\ pc' = [pc EXCEPT ![c] = "idle"]
            /\ UNCHANGED <<idx, results, success_count>>
       ELSE /\ results' = [results EXCEPT ![c] = res]
            /\ success_count' = [success_count EXCEPT ![c] =
                   count_success(success_count[c], ok)]
            /\ IF loop_continues(c, ok)
               THEN /\ idx' = [idx EXCEPT ![c] = idx[c] + 1]
                    /\ pc' = [pc EXCEPT ![c] = FirstStep(sender[c].kind)]
                    /\ UNCHANGED ret
               ELSE /\ ret' = [ret EXCEPT ![c] = ListRet(res)]
                    /\ pc' = [pc EXCEPT ![c] = "idle"]
                    /\ UNCHANGED idx

\* resend.Emails.send(params): the library authenticates with resend.api_key
EmailsSend(c, ok) ==
    /\ pc[c] = "send"
    /\ Conclude(c, ok, <<Entry(c, "Emails.send", ok, CurrentTo(c), resend_api_key)>>)
    /\ UNCHANGED <<sender, resend_api_key, args, recipients, open_connections>>
    /\ UNCHANGED parseVars

\* faulty variant of server_exit: the connection is left open
server_exit_leak(c) == open_connections

\* leaving the block `with smtplib.SMTP(...) as server` closes the connection
server_exit(c) == [open_connections EXCEPT ![c] = open_connections[c] - 1]

\* A library call inside the with block failed: SMTP.__exit__ closes the
\* connection, the except clause makes the failed result
FailInWith(c, op, to, cred) ==
    /\ open_connections' = server_exit(c)
    /\ Conclude(c, FALSE, <<Entry(c, op, FALSE, to, cred)>>)

\* a library call inside the with block succeeded: on to the next one
StepOk(c, op, to, cred, next) ==
    /\ log' = [log EXCEPT ![c] = Append(log[c], Entry(c, op, TRUE, to, cred))]
    /\ pc' = [pc EXCEPT ![c] = next]
    /\ UNCHANGED <<idx, results, success_count, ret, open_connections>>

\* smtplib.SMTP(self.smtp_host, self.smtp_port): connects, or raises
SmtpConnect(c, ok) ==
    /\ pc[c] = "connect"
    /\ IF ok
       THEN /\ open_connections' =
                   [open_connections EXCEPT ![c] = open_connections[c] + 1]
            /\ log' = [log EXCEPT ![c] =
                   Append(log[c], Entry(c, "connect", TRUE, <<>>, "none"))]
            /\ pc' = [pc EXCEPT ![c] = "starttls"]
            /\ UNCHANGED <<idx, results, success_count, ret>>
       ELSE /\ Conclude(c, FALSE, <<Entry(c, "connect", FALSE, <<>>, "none")>>)
            /\ UNCHANGED open_connections
    /\ UNCHANGED <<sender, resend_api_key, args, recipients>>
    /\ UNCHANGED parseVars

\* server.starttls()
SmtpStartTLS(c, ok) ==
    /\ pc[c] = "starttls"
    /\ IF ok THEN StepOk(c, "starttls", <<>>, "none", "login")
       ELSE FailInWith(c, "starttls", <<>>, "none")
    /\ UNCHANGED <<sender, resend_api_key, args, recipients>>
    /\ UNCHANGED parseVars

\* server.login(self.smtp_user, self.smtp_password)
SmtpLogin(c, ok) ==
    /\ pc[c] = "login"
    /\ IF ok THEN StepOk(c, "login", <<>>, sender[c].cred, "send_message")
       ELSE FailInWith(c, "login", <<>>, sender[c].cred)
    /\ UNCHANGED <<sender, resend_api_key, args, recipients>>
    /\ UNCHANGED parseVars

\* server.send_message(msg, from_addr=from_addr, to_addrs=...)
SmtpSendMessage(c, ok) ==
    /\ pc[c] = "send_message"
    /\ IF ok THEN StepOk(c, "send_message", CurrentTo(c), sender[c].cred, "quit")
       ELSE FailInWith(c, "send_message", CurrentTo(c), sender[c].cred)
    /\ UNCHANGED <<sender, resend_api_key, args, recipients>>
    /\ UNCHANGED parseVars

\* the end of the with block: SMTP.__exit__ sends QUIT, raises
\* SMTPResponseException unless the reply is 221, and closes in any case
SmtpQuit(c, ok) ==
    /\ pc[c] = "quit"
    /\ open_connections' = server_exit(c)
    /\ Conclude(c, ok, <<Entry(c, "quit", ok, <<>>, "none")>>)
    /\ UNCHANGED <<sender, resend_api_key, args, recipients>>
    /\ UNCHANGED parseVars

\* one step of caller c, its inputs drawn from tos and froms
Step(c, tos, froms, builds) ==
    \/ \E kind \in Senders, cred \in Credentials : Construct(c, kind, cred)
    \/ \E m \in Methods, to \in tos, f \in froms, b \in builds :
           Call(c, m, to, f, b)
    \/ Discard(c)
    \/ \E ok \in BOOLEAN : EmailsSend(c, ok)
    \/ \E ok \in BOOLEAN : SmtpConnect(c, ok)
    \/ \E ok \in BOOLEAN : SmtpStartTLS(c, ok)
    \/ \E ok \in BOOLEAN : SmtpLogin(c, ok)
    \/ \E ok \in BOOLEAN : SmtpSendMessage(c, ok)
    \/ \E ok \in BOOLEAN : SmtpQuit(c, ok)

\* one caller, one call after the other
Next == Step("c1", ToInputs, FromInputs, BOOLEAN)

Spec == Init /\ [][Next]_vars

\* two callers, their constructions and calls interleaved
NextConc == \E c \in Callers : Step(c, ConcToInputs, ConcFromInputs, {TRUE})

SpecConc == Init /\ [][NextConc]_vars

(***************************************************************************)
(* _parse_recipients on its own: every str of at most MaxLen characters    *)
(* of Alphabet, and every list of str that such a str is cut into at ';'.  *)
(***************************************************************************)
RECURSIVE Strs(_)
Strs(n) ==
    IF n = 0 THEN {<<>>}
    ELSE LET P == Strs(n - 1) IN P \cup {Append(s, ch) : s \in P, ch \in Alphabet}

\* the elements of a list written as one str, ';' between the elements
RECURSIVE Elements(_)
Elements(s) ==
    IF ~Contains(s, ";") THEN <<s>>
    ELSE LET k == CHOOSE i \in 1..Len(s) :
                      s[i] = ";" /\ \A j \in 1..(i - 1) : s[j] # ";"
         IN  <<SubSeq(s, 1, k - 1)>> \o Elements(SubSeq(s, k + 1, Len(s)))

ParseInputs ==
    {Str(s) : s \in Strs(MaxLen)}
    \cup {List(Elements(s)) : s \in Strs(MaxLen)}
    \cup {List(<<>>)}

InitParse ==
    /\ sender = [c \in Callers |-> NoSender]
    /\ resend_api_key = "unset"
    /\ pc = [c \in Callers |-> "idle"]
    /\ args = [c \in Callers |-> NoArgs]
    /\ recipients = [c \in Callers |-> <<>>]
    /\ idx = [c \in Callers |-> 0]
    /\ results = [c \in Callers |-> <<>>]
    /\ success_count = [c \in Callers |-> 0]
    /\ open_connections = [c \in Callers |-> 0]
    /\ ret = [c \in Callers |-> NoRet]
    /\ log = [c \in Callers |-> <<>>]
    /\ p_sender \in Senders
    /\ p_to \in ParseInputs
    /\ p_pc = "input"
    /\ p_out = NoParse
    /\ p_out2 = NoParse

\* recipients = self._parse_recipients(to)
Parse ==
    /\ p_pc = "input"
    /\ p_out' = parse_recipients(p_sender, p_to)
    /\ p_pc' = "parsed"
    /\ p_out2' = p_out2
    /\ UNCHANGED <<p_sender, p_to>>
    /\ UNCHANGED sendVars

\* self._parse_recipients(recipients), the list just parsed
Reparse ==
    /\ p_pc = "parsed"
    /\ ~p_out.raised
    /\ p_out2' = parse_recipients(p_sender, List(p_out.recipients))
    /\ p_pc' = "reparsed"
    /\ UNCHANGED <<p_sender, p_to, p_out>>
    /\ UNCHANGED sendVars

NextParse == Parse \/ Reparse

SpecParse == InitParse /\ [][NextParse]_vars

(***************************************************************************)
(* Properties.                                                             *)
(***************************************************************************)
\* the call of caller c has returned a value
Returned(c) == pc[c] = "idle" /\ ret[c].t \in {"dict", "list"}

\* the list the arguments of c's call parse to
Parsed(c) == parse_recipients(sender[c].kind, args[c].to).recipients

\* the transport calls of c's call: resend.Emails.send, SMTP.send_message
IsTransport(e) == e.op \in {"Emails.send", "send_message"}
Transport(c) == SelectSeq(log[c], IsTransport)

\* the call of c made library call op for batch position i, without error
Did(c, op, i) == \E k \in 1..Len(log[c]) :
                     log[c][k].op = op /\ log[c][k].i = i /\ log[c][k].ok

\* number of entries of a result list with success = true
RECURSIVE Successes(_)
Successes(res) ==
    IF res = <<>> THEN 0
    ELSE (IF Head(res).success THEN 1 ELSE 0) + Successes(Tail(res))

\* C1 as claimed: whenever the parsed list has N >= 1 addresses, send_email
\* makes exactly one transport call carrying the whole list and
\* send_batch_separate makes exactly N, the i-th carrying the i-th address.
C1_ExactlyOnePerSend ==
    \A c \in Callers :
        (Returned(c) /\ Len(Parsed(c)) >= 1) =>
            LET T == Transport(c) IN
            IF args[c].method = "send_email"
            THEN Len(T) = 1 /\ T[1].to = Parsed(c)
            ELSE /\ Len(T) = Len(Parsed(c))
                 /\ \A i \in 1..Len(T) : T[i].to = <<Parsed(c)[i]>>

\* C1 amended: ResendSender behaves as claimed.  SMTPSender calls
\* send_message only after the from address was accepted, the message built
\* and connect, STARTTLS and login succeeded: send_email makes at most one
\* call, exactly one when those steps succeed, carrying the whole list;
\* send_batch_separate makes one call for exactly the recipients whose steps
\* succeeded, in list order, each carrying that one address.
C1_TransportCalls ==
    \A c \in Callers :
        (Returned(c) /\ Len(Parsed(c)) >= 1) =>
            LET T == Transport(c)
                N == Len(Parsed(c))
                batch == args[c].method = "send_batch_separate"
                positions == IF batch THEN 1..N ELSE {0}
                reached(i) ==
                    \/ sender[c].kind = "resend"
                    \/ /\ format_from_header_ok(args[c].from_email)
                       /\ args[c].build_ok
                       /\ Did(c, "connect", i)
                       /\ Did(c, "starttls", i)
                       /\ Did(c, "login", i)
            IN
            /\ \A k \in 1..Len(T) :
                   /\ T[k].i \in positions
                   /\ T[k].to = IF batch THEN <<Parsed(c)[T[k].i]>> ELSE Parsed(c)
            /\ \A k \in 1..(Len(T) - 1) : T[k].i < T[k + 1].i
            /\ \A i \in positions :
                   reached(i) <=> (\E k \in 1..Len(T) : T[k].i = i)

\* C1 witness: an SMTP batch of three recipients came back with a
\* send_message call for the first and the third only
C1_Witness ==
    \E c \in Callers :
        /\ Returned(c)
        /\ sender[c].kind = "smtp"
        /\ args[c].method = "send_batch_separate"
        /\ Len(Parsed(c)) = 3
        /\ Len(Transport(c)) = 2
        /\ Transport(c)[1].i = 1
        /\ Transport(c)[2].i = 3

\* C2 as claimed: a batch returns one entry per parsed recipient in order,
\* every recipient gets its transport call, and entry i has success = true
\* exactly when that transport call did not raise.
C2_SuccessIffTransportOk ==
    \A c \in Callers :
        (Returned(c) /\ args[c].method = "send_batch_separate") =>
            LET T == Transport(c)
                N == Len(Parsed(c))
            IN
            /\ Len(ret[c].results) = N
            /\ \A i \in 1..N :
                   /\ ret[c].results[i].email = Parsed(c)[i]
                   /\ Cardinality({k \in 1..Len(T) : T[k].i = i}) = 1
                   /\ ret[c].results[i].success <=>
                          (\A k \in 1..Len(T) : T[k].i = i => T[k].ok)

\* every step of the send for batch position i went through
AttemptOk(c, i) ==
    IF sender[c].kind = "resend" THEN Did(c, "Emails.send", i)
    ELSE /\ format_from_header_ok(args[c].from_email)
         /\ args[c].build_ok
         /\ \A op \in {"connect", "starttls", "login", "send_message", "quit"} :
                Did(c, op, i)

\* C2 amended: a failure for one recipient does not stop the loop; the list
\* returned has one entry per parsed recipient in parsed order, and entry i
\* has success = true exactly when no step for recipient i raised: the
\* Emails.send call for ResendSender; for SMTPSender the from-address check,
\* the message build, connect, STARTTLS, login, send_message and the QUIT
\* that ends the connection block.
C2_PerRecipient ==
    \A c \in Callers :
        (Returned(c) /\ args[c].method = "send_batch_separate") =>
            LET N == Len(Parsed(c)) IN
            /\ Len(ret[c].results) = N
            /\ \A i \in 1..N :
                   /\ ret[c].results[i].email = Parsed(c)[i]
                   /\ ret[c].results[i].success <=> AttemptOk(c, i)

\* C2 witness: three recipients, the transport failed for the second only,
\* the flags are [true, false, true]
C2_Witness ==
    \E c \in Callers :
        /\ Returned(c)
        /\ args[c].method = "send_batch_separate"
        /\ Len(ret[c].results) = 3
        /\ ret[c].results[1].success
        /\ ~ret[c].results[2].success
        /\ ret[c].results[3].success
        /\ \E k \in 1..Len(log[c]) :
               IsTransport(log[c][k]) /\ log[c][k].i = 2 /\ ~log[c][k].ok

\* C3: no call to send_email or send_batch_separate ends with an exception
\* reaching the caller.
C3_NoException == \A c \in Callers : ret[c].t # "raise"

\* C4: when the recipient list is empty after parsing, send_email returns
\* success = false and recipients = [], makes no library call and opens no
\* connection.
C4_EmptyRecipients ==
    \A c \in Callers :
        (/\ args[c].method = "send_email"
         /\ args[c].to.t # "None"
         /\ Parsed(c) = <<>>) =>
            /\ pc[c] = "idle"
            /\ ret[c].t = "dict"
            /\ ~ret[c].success
            /\ ret[c].recipients = <<>>
            /\ log[c] = <<>>
            /\ open_connections[c] = 0

\* C4 witness: send_email was called with a list and a str that hold only
\* invalid entries
C4_Witness ==
    \E c \in Callers :
        /\ args[c].method = "send_email"
        /\ args[c].to = Str(NotAnEmail)
        /\ ret[c].t = "dict"

\* C5: SMTPSender.send_email with a valid recipient and a from address whose
\* address part is empty or lacks '@' or '.' returns success = false and
\* never opens a connection.
C5_InvalidFrom ==
    \A c \in Callers :
        (/\ args[c].method = "send_email"
         /\ sender[c].kind = "smtp"
         /\ args[c].to.t # "None"
         /\ Parsed(c) # <<>>
         /\ LET addr == parseaddr(args[c].from_email)
            IN  addr = <<>> \/ ~Contains(addr, "@") \/ ~Contains(addr, ".")) =>
            /\ pc[c] = "idle"
            /\ ret[c].t = "dict"
            /\ ~ret[c].success
            /\ log[c] = <<>>
            /\ open_connections[c] = 0

\* C5 witness: the from address has '@' and '.' but no address part
C5_Witness ==
    \E c \in Callers :
        /\ args[c].method = "send_email"
        /\ sender[c].kind = "smtp"
        /\ Parsed(c) # <<>>
        /\ args[c].from_email = NoAddrPart
        /\ ret[c].t = "dict"

\* C6: every SMTP connection a call opens is closed before the call returns,
\* on every exit path; a call holds at most one connection at a time.
C6_ConnectionsClosed ==
    \A c \in Callers :
        /\ pc[c] = "idle" => open_connections[c] = 0
        /\ open_connections[c] =
               IF pc[c] \in {"starttls", "login", "send_message", "quit"}
               THEN 1 ELSE 0

\* C6 witness: a batch returned after login failed for its second recipient
C6_Witness ==
    \E c \in Callers :
        /\ Returned(c)
        /\ args[c].method = "send_batch_separate"
        /\ Did(c, "connect", 1)
        /\ Did(c, "connect", 2)
        /\ \E k \in 1..Len(log[c]) :
               log[c][k].op = "login" /\ log[c][k].i = 2 /\ ~log[c][k].ok

\* C7: a sender transmits with the credentials it was constructed with,
\* whatever other callers construct or send meanwhile.
C7_OwnCredentials ==
    \A c \in Callers :
        \A k \in 1..Len(log[c]) :
            log[c][k].cred # "none" => log[c][k].cred = log[c][k].self_cred

\* C8 as claimed: send_batch_separate returns, with the results, a count of
\* successes equal to the number of results with success = true.
C8_ReturnsCount ==
    \A c \in Callers :
        (pc[c] = "idle" /\ ret[c].t = "list") =>
            /\ "success_count" \in ret[c].parts
            /\ success_count[c] = Successes(ret[c].results)

\* C8 amended: send_batch_separate returns the list of results only, one per
\* parsed address; the count of successes it keeps and prints equals the
\* number of results with success = true, and is not returned.
C8_CountNotReturned ==
    \A c \in Callers :
        (pc[c] = "idle" /\ ret[c].t = "list") =>
            /\ ret[c].parts = {"results"}
            /\ Len(ret[c].results) = Len(Parsed(c))
            /\ success_count[c] = Successes(ret[c].results)

\* C8 witness: a batch of three returned with two successes
C8_Witness ==
    \E c \in Callers :
        /\ pc[c] = "idle"
        /\ ret[c].t = "list"
        /\ Len(ret[c].results) = 3
        /\ success_count[c] = 2

(***************************************************************************)
(* Properties of _parse_recipients.  The pieces of the input are described *)
(* by the places of the separators, not by the code's loops.               *)
(***************************************************************************)
\* the separator a str is cut at
Separator(s) ==
    IF Contains(s, ",") THEN "," ELSE IF Contains(s, ";") THEN ";" ELSE "none"

\* the k-th smallest number of a set of numbers
Ranked(S, k) == CHOOSE x \in S : Cardinality({y \in S : y < x}) = k - 1

\* the pieces of s between the separators
Pieces(s) ==
    LET at == {i \in 1..Len(s) : s[i] = Separator(s)}
        n  == Cardinality(at)
        cut(k) == IF k = 0 THEN 0 ELSE IF k = n + 1 THEN Len(s) + 1
                  ELSE Ranked(at, k)
    IN  [k \in 1..(n + 1) |-> SubSeq(s, cut(k - 1) + 1, cut(k) - 1)]

\* a piece without the blanks around it
Trimmed(piece) ==
    LET ink == {i \in 1..Len(piece) : piece[i] # " "}
    IN  IF ink = {} THEN <<>>
        ELSE SubSeq(piece, Ranked(ink, 1), Ranked(ink, Cardinality(ink)))

NonEmpty(piece) == piece # <<>>

\* the trimmed, non-empty pieces of an input, in input order
TrimmedPieces(to) ==
    LET raw == IF to.t = "str" THEN Pieces(to.v) ELSE to.v
    IN  SelectSeq([k \in 1..Len(raw) |-> Trimmed(raw[k])], NonEmpty)

HasAtAndDot(piece) == Contains(piece, "@") /\ Contains(piece, ".")

C10_Idempotent == p_pc = "reparsed" => p_out2 = p_out

====
